---- MODULE Spec2Model ----
(***************************************************************************)
(* Model of class latent_ideology (latent_ideology_class.py).              *)
(*                                                                         *)
(* The object holds one interaction table, self.df.  Its methods           *)
(*   make_adjacency    filter the table (drop, k, n, m) and build the      *)
(*                     weighted target x source adjacency matrix;          *)
(*   calculate_scores  correspondence analysis of a matrix: one score per  *)
(*                     row, rescaled to [-1, 1];                           *)
(*   apply_method      make_adjacency, calculate_scores of its matrix,     *)
(*                     then per-source (weighted) mean of target scores.   *)
(*                                                                         *)
(* A data frame is a sequence of rows; a row is a record whose fields are  *)
(* the columns.  Index labels are positions (RangeIndex), and a filtered   *)
(* frame is the ascending sequence of the labels it keeps.  Real numbers   *)
(* are exact fractions <<num, den>>; <<0, 0>> stands for NaN.              *)
(***************************************************************************)
EXTENDS Integers, Sequences, FiniteSets, TLC

\* ------------------------------------------------------------------ bounds
\* Longest raw interaction log (one row per interaction) drawn for self.df.
MaxRows == 3
\* Longest already aggregated table (one row per pair, with its count) that
\* the three methods are run on together, and the largest value of a count
\* column.
MaxAggRows == 2
MaxWeight == 2
\* Matrices handed directly to calculate_scores: largest entry, most rows,
\* most columns, largest sum of all entries.
MaxEntry == 2
MaxMatRows == 3
MaxMatCols == 3
MaxTotal == 3

\* Identifiers: targets and sources are disjoint sets of integers, ordered
\* as pandas orders group keys.
Targets == {1, 2}
Sources == {11, 12, 13}
\* The sources of the tables that come with a count column.
AggregatedSources == {11, 12}

\* Python's None for the optional parameters m and k.
None == -1
\* k = 1e23 "enourmous number that resembles the non-filtering case"; the
\* model uses the largest integer TLC represents.
K_UNSET == 2147483647

\* Parameter values the calls are tried with.
MChoices == {None, 1, 2}
NChoices == {1, 2, 3}
KChoices == {None, 1, 2, 3}
DropChoices == {{}, {1}, {12}}
Dimensions == {1, 2}

VARIABLES
  self_df,   \* self.df: the interaction table the object was built with
  caller_df, \* the value the caller's table had when __init__ received it
  tie,       \* order in which the library's (unstable) sort leaves equal keys
  call       \* the last method call: its parameters and what it returned

vars == <<self_df, caller_df, tie, call>>

\* ------------------------------------------------------------ small helpers
RECURSIVE SumOver(_, _)
SumOver(S, f) ==
  IF S = {} THEN 0
  ELSE LET x == CHOOSE y \in S : TRUE IN f[x] + SumOver(S \ {x}, f)

Min(S) == CHOOSE x \in S : \A y \in S : x <= y
Max(S) == CHOOSE x \in S : \A y \in S : x >= y

Range(s) == {s[i] : i \in DOMAIN s}

\* Ascending sequence of a finite set of integers (pandas group-key order).
RECURSIVE SortedSeq(_)
SortedSeq(S) ==
  IF S = {} THEN <<>> ELSE <<Min(S)>> \o SortedSeq(S \ {Min(S)})

\* Series.unique(): the distinct values in order of first appearance.
RECURSIVE unique(_)
unique(s) ==
  IF s = <<>> THEN <<>>
  ELSE LET r == unique(SubSeq(s, 1, Len(s) - 1))
           x == s[Len(s)]
       IN IF x \in Range(r) THEN r ELSE Append(r, x)

Perms(S) == {q \in [1..Cardinality(S) -> S] : Range(q) = S}
PosIn(q, x) == CHOOSE i \in DOMAIN q : q[i] = x

\* ------------------------------------------------------------- the tables
\* The caller's table has columns user, outlet, count; every call names
\* them by targets='user', sources='outlet', weight_name='count'.
InputRow == [user : Targets, outlet : AggregatedSources, count : 0..MaxWeight]

\* A raw interaction log: one row per interaction, count = 1.
RawTables ==
  UNION {[1..l -> [user : Targets, outlet : Sources, count : {1}]] : l \in 1..MaxRows}

\* An already aggregated table of at most rows rows: at most one row per
\* pair, any count.
AggregatedTables(rows) ==
  {t \in UNION {[1..l -> InputRow] : l \in 1..rows} :
     \A i, j \in DOMAIN t :
       i # j => <<t[i].user, t[i].outlet>> # <<t[j].user, t[j].outlet>>}

\* ------------------------------------------------------------ make_adjacency
\* Lines 55-59: the working copy with the columns target, source (, weight).
df_copy(sdf, weight) ==
  [i \in DOMAIN sdf |->
     IF weight
     THEN [user |-> sdf[i].user, outlet |-> sdf[i].outlet, count |-> sdf[i].count,
           target |-> sdf[i].user, source |-> sdf[i].outlet, weight |-> sdf[i].count]
     ELSE [user |-> sdf[i].user, outlet |-> sdf[i].outlet, count |-> sdf[i].count,
           target |-> sdf[i].user, source |-> sdf[i].outlet]]

\* The call without line 55's copy(): the new columns land in self.df.
self_df_after_in_place(sdf, weight) == df_copy(sdf, weight)

\* What the call leaves in self.df: it works on the copy of line 55.
self_df_after(sdf, weight) == sdf

\* Lines 60-63: the defaults of m and k.
m_default(m, df) == IF m = None THEN Len(df) ELSE m
k_default(k) == IF k = None THEN K_UNSET ELSE k

\* Lines 66-75: drop every row whose target or source is in drop; reset_index.
df_drop(df, drop) ==
  LET fulldrop == {i \in DOMAIN df : df[i].target \in drop}
                  \cup {i \in DOMAIN df : df[i].source \in drop}
      RECURSIVE Kept(_)
      Kept(i) == IF i > Len(df) THEN <<>>
                 ELSE IF i \in fulldrop THEN Kept(i + 1)
                 ELSE <<df[i]>> \o Kept(i + 1)
  IN Kept(1)

\* Line 80: rows per target (groupby('target').count()).
counter(df, t) == Cardinality({i \in DOMAIN df : df[i].target = t})

\* Line 81 with counter <= k.
interactions_count_inclusive(df, k) ==
  {t \in {df[i].target : i \in DOMAIN df} : counter(df, t) <= k}

\* Line 81: the targets with counter < k.
interactions_count(df, k) ==
  {t \in {df[i].target : i \in DOMAIN df} : counter(df, t) < k}

\* Line 82: the labels of the rows of those targets.
df_th0(df, k) ==
  SortedSeq({i \in DOMAIN df : df[i].target \in interactions_count(df, k)})

\* Lines 85-98: per target of df_th0, the set of its distinct sources.
sources_associated(df, th0, t) ==
  {df[s].source : s \in {i \in Range(th0) : df[i].target = t}}

\* Line 96's total_interactions taken for line 98's length.
total_interactions_of(df, th0, t) ==
  Cardinality({i \in Range(th0) : df[i].target = t})

\* Line 98: the number of distinct sources of the target.
total_distinct_sources(df, th0, t) == Cardinality(sources_associated(df, th0, t))

\* Line 101 with total_distinct_sources <= n.
targets_threshold_1_at_most(df, th0, n) ==
  {t \in {df[i].target : i \in Range(th0)} : total_distinct_sources(df, th0, t) <= n}

\* Lines 101-102: the targets with total_distinct_sources >= n.
targets_threshold_1(df, th0, n) ==
  {t \in {df[i].target : i \in Range(th0)} : total_distinct_sources(df, th0, t) >= n}

\* Line 103: the rows of df_th0 of those targets.
df_filtered_th1(df, th0, n) ==
  SortedSeq({i \in Range(th0) : df[i].target \in targets_threshold_1(df, th0, n)})

\* Line 106 counting the distinct targets of a source.
source_count_distinct(df, th1, s) ==
  Cardinality({df[i].target : i \in {j \in Range(th1) : df[j].source = s}})

\* Line 106: groupby('source').count(): rows per source of df_filtered_th1.
source_count(df, th1, s) == Cardinality({i \in Range(th1) : df[i].source = s})

\* Line 106: sort_values(by='target', ascending=False): the sources by
\* descending count.  The default sort is not stable; equal counts come out
\* in the order tq.
sorted_sources(df, th1, tq) ==
  LET S == {df[i].source : i \in Range(th1)}
      Before(a, b) == \/ source_count(df, th1, a) > source_count(df, th1, b)
                      \/ /\ source_count(df, th1, a) = source_count(df, th1, b)
                         /\ PosIn(tq, a) < PosIn(tq, b)
  IN CHOOSE q \in Perms(S) :
       \A i, j \in DOMAIN q : i < j => Before(q[i], q[j])

\* Line 106 slicing off the first m sources instead of taking them.
top_sources_skip(df, th1, m, tq) ==
  LET q == sorted_sources(df, th1, tq)
  IN {q[i] : i \in {j \in DOMAIN q : j > m}}

\* Line 106: .head(m).index
top_sources(df, th1, m, tq) ==
  LET q == sorted_sources(df, th1, tq)
  IN {q[i] : i \in {j \in DOMAIN q : j <= m}}

\* Line 107: the rows of df_filtered_th1 whose source is a top source.
df_filtered_th1_th2(df, th1, m, tq) ==
  SortedSeq({i \in Range(th1) : df[i].source \in top_sources(df, th1, m, tq)})

\* Lines 110-111.
source_list(df, th2) == unique([j \in DOMAIN th2 |-> df[th2[j]].source])
target_list(df, th2) == unique([j \in DOMAIN th2 |-> df[th2[j]].target])

\* Lines 119-126: without a weight column, one row per (target, source) pair
\* of the filtered frame, weight = the number of its rows; the final
\* groupby(['target','source']) leaves the pairs in key order.
count_weights(df, th2) ==
  LET pairs == {<<df[i].target, df[i].source>> : i \in Range(th2)}
      ts == SortedSeq({pr[1] : pr \in pairs})
      RECURSIVE Rows(_)
      Rows(j) ==
        IF j > Len(ts) THEN <<>>
        ELSE LET ss == SortedSeq({pr[2] : pr \in {q \in pairs : q[1] = ts[j]}})
             IN [l \in DOMAIN ss |->
                   [target |-> ts[j], source |-> ss[l],
                    weight |-> Cardinality({i \in Range(th2) :
                                 df[i].target = ts[j] /\ df[i].source = ss[l]})]]
                \o Rows(j + 1)
  IN Rows(1)

\* Line 128: with a weight column dfw is the filtered frame itself (the
\* columns target, source, weight are the ones read afterwards).
given_weights(df, th2) ==
  [j \in DOMAIN th2 |->
     [target |-> df[th2[j]].target, source |-> df[th2[j]].source,
      weight |-> df[th2[j]].weight]]

\* pd.concat taking an empty list for an empty frame.
concat_accepts_empty(objs) == FALSE

\* Lines 126 and 152: pd.concat of an empty list raises ValueError
\* ("No objects to concatenate").
concat_raises(objs) == objs = <<>>

\* Lines 146-152: one column per source of source_list, rows grouped by
\* target (in key order), a cell is the sum of the weights of its pair.
final_data(dfw, sl) ==
  LET idx == SortedSeq({dfw[j].target : j \in DOMAIN dfw})
  IN [index |-> idx,
      columns |-> sl,
      cell |-> [pr \in Range(idx) \X Range(sl) |->
                  SumOver({j \in DOMAIN dfw : dfw[j].target = pr[1] /\ dfw[j].source = pr[2]},
                          [j \in DOMAIN dfw |-> dfw[j].weight])]]

NoMatrix == [index |-> <<>>, columns |-> <<>>, cell |-> <<>>]

\* Lines 55-161: the whole call.  p = [m, n, k, drop, weight]; tq is the
\* order the sort leaves ties in.  The result carries the returned matrix
\* (final_data), the filtered table (dfw) and the intermediate frames.
make_adjacency(sdf, p, tq) ==
  LET df0 == df_copy(sdf, p.weight)
      m   == m_default(p.m, df0)
      k   == k_default(p.k)
      df  == df_drop(df0, p.drop)
      th0 == df_th0(df, k)
      th1 == df_filtered_th1(df, th0, p.n)
      th2 == df_filtered_th1_th2(df, th1, m, tq)
      sl  == source_list(df, th2)
      tl  == target_list(df, th2)
      dfw == IF p.weight THEN given_weights(df, th2) ELSE count_weights(df, th2)
      raised == concat_raises(sl)
  IN [status |-> IF raised THEN "ValueError" ELSE "ok",
      matrix |-> IF raised THEN NoMatrix ELSE final_data(dfw, sl),
      dfw |-> IF raised THEN <<>> ELSE dfw,
      df |-> df, th0 |-> th0, th1 |-> th1, th2 |-> th2,
      source_list |-> sl, target_list |-> tl]

\* ---------------------------------------------------------------- numbers
\* A float is modelled by the exact fraction it approximates, in lowest
\* terms with a positive denominator; NaN is <<0, 0>>.
Abs(a) == IF a < 0 THEN -a ELSE a

RECURSIVE GCD(_, _)
GCD(a, b) == IF b = 0 THEN a ELSE GCD(b, a % b)

NaN == <<0, 0>>
IsNaN(f) == f[2] = 0

Frac(num, den) ==
  IF den = 0 THEN NaN
  ELSE LET g == GCD(Abs(num), Abs(den))
           sg == IF den < 0 THEN -1 ELSE 1
       IN <<sg * (num \div g), sg * (den \div g)>>

FAdd(a, b) == IF IsNaN(a) \/ IsNaN(b) THEN NaN
              ELSE Frac(a[1] * b[2] + b[1] * a[2], a[2] * b[2])
FMul(a, k) == IF IsNaN(a) THEN NaN ELSE Frac(a[1] * k, a[2])
FDiv(a, k) == IF IsNaN(a) THEN NaN ELSE Frac(a[1], a[2] * k)
FLess(a, b) == a[1] * b[2] < b[1] * a[2]

\* np.sum of a sequence of floats.
RECURSIVE FSum(_)
FSum(s) == IF s = <<>> THEN <<0, 1>> ELSE FAdd(s[1], FSum(Tail(s)))

RECURSIVE ISum(_)
ISum(s) == IF s = <<>> THEN 0 ELSE s[1] + ISum(Tail(s))

\* ---------------------------------------------------------- calculate_scores
\* A matrix is a sequence of rows, each a sequence of non-negative integers.
n_row(A) == Len(A)
n_col(A) == Len(A[1])

\* Line 188: np.sum(A).
np_sum(A) == ISum([i \in 1..n_row(A) |-> ISum(A[i])])

\* Lines 193-194: r and c, the row and column sums of P = A / np.sum(A);
\* the model keeps them multiplied by np.sum(A).
row_sum(A, i) == ISum(A[i])
col_sum(A, j) == ISum([i \in 1..n_row(A) |-> A[i][j]])

\* Lines 188-203: 1/np.sum(A), r**(-0.5) and c**(-0.5) are inf for a zero
\* sum, and inf * 0 puts NaN into S.
S_not_finite(A) ==
  \/ np_sum(A) = 0
  \/ \E i \in 1..n_row(A) : row_sum(A, i) = 0
  \/ \E j \in 1..n_col(A) : col_sum(A, j) = 0

\* Line 203: P - r c^T, multiplied by np.sum(A)^2.  S is this matrix with
\* its rows and columns scaled by positive factors.
residual(A, i, j) == np_sum(A) * A[i][j] - row_sum(A, i) * col_sum(A, j)

\* The d-th singular value of S is positive (rank S >= d), for d = 1, 2.
S_rank_at_least(A, d) ==
  \/ /\ d = 1
     /\ \E i \in 1..n_row(A), j \in 1..n_col(A) : residual(A, i, j) # 0
  \/ /\ d = 2
     /\ \E i1, i2 \in 1..n_row(A) :
          /\ i1 < i2
          /\ \E j1, j2 \in 1..n_col(A) :
               /\ j1 < j2
               /\ residual(A, i1, j1) * residual(A, i2, j2)
                    # residual(A, i1, j2) * residual(A, i2, j1)

\* Lines 207-208 and 215-218: column d of X_dim1 = Dr2 . U, up to a common
\* positive factor.  randomized_svd returns singular vectors of S: when the
\* d-th singular value is positive, U[:, d] lies in the column space of S,
\* which is orthogonal to r**0.5, so sum_i r[i] * X[i] = 0 and X # 0; when it
\* is zero, U[:, d] is whatever rounding leaves, any vector.  The coordinates
\* are drawn from the integers up to the largest row sum.
X_dim1(A, d) ==
  LET B == Max({row_sum(A, i) : i \in 1..n_row(A)})
      V == [1..n_row(A) -> (-B)..B]
  IN IF S_rank_at_least(A, d)
     THEN {x \in V : /\ \E i \in 1..n_row(A) : x[i] # 0
                     /\ ISum([i \in 1..n_row(A) |-> row_sum(A, i) * x[i]]) = 0}
     ELSE V

\* np.ptp(x) = max - min.
ptp(x) == Max(Range(x)) - Min(Range(x))

\* Lines 212 and 219 dividing by max(x) instead of ptp(x).
scaled_by_max(x) ==
  [i \in DOMAIN x |->
     Frac(2 * (x[i] - Min(Range(x))) - Max(Range(x)), Max(Range(x)))]

\* Lines 212 and 219: -1 + 2 * (x - min(x)) / ptp(x); 0/0 is NaN.
scaled(x) ==
  [i \in DOMAIN x |-> Frac(2 * (x[i] - Min(Range(x))) - ptp(x), ptp(x))]

\* Lines 188-221: what calculate_scores(A, dimension) can return.  The
\* result holds one score vector per dimension (for dimension = 1 the code
\* returns the single n x 1 column itself).  randomized_svd raises
\* ValueError on a matrix with NaN, and returns min(n_row, n_col) vectors
\* at most, so that line 212 raises IndexError beyond them.
RECURSIVE score_lists(_, _)
score_lists(A, d) ==
  IF d = 0 THEN {<<>>}
  ELSE {Append(sc, scaled(x)) : sc \in score_lists(A, d - 1), x \in X_dim1(A, d)}

calculate_scores(A, dimension) ==
  IF S_not_finite(A) THEN {[status |-> "ValueError", scores |-> <<>>]}
  ELSE IF dimension > 1 /\ dimension > Min({n_row(A), n_col(A)})
  THEN {[status |-> "IndexError", scores |-> <<>>]}
  ELSE {[status |-> "ok", scores |-> sc] : sc \in score_lists(A, dimension)}

\* -------------------------------------------------------------- apply_method
\* Line 300: df_adjacency.to_numpy(dtype=int).
to_numpy(mat) ==
  [i \in DOMAIN mat.index |->
     [j \in DOMAIN mat.columns |-> mat.cell[<<mat.index[i], mat.columns[j]>>]]]

\* Lines 302-304: the target score table, one row per row of the matrix.
df_scores_target(mat, scores) ==
  [i \in DOMAIN mat.index |-> [target |-> mat.index[i], score |-> scores[i]]]

\* Lines 307-309: every row of the filtered table joined with the score of
\* its target.
df_final(dfw, dst) ==
  [j \in DOMAIN dfw |->
     [target |-> dfw[j].target, source |-> dfw[j].source, weight |-> dfw[j].weight,
      score |-> (CHOOSE r \in Range(dst) : r.target = dfw[j].target).score]]

\* Lines 312-315: the keys of groupby(['source', 'weight']), in key order.
keys_list(dff) ==
  LET ss == SortedSeq({dff[j].source : j \in DOMAIN dff})
      RECURSIVE Keys(_)
      Keys(l) ==
        IF l > Len(ss) THEN <<>>
        ELSE LET ws == SortedSeq({dff[j].weight : j \in {x \in DOMAIN dff : dff[x].source = ss[l]}})
             IN [y \in DOMAIN ws |-> <<ss[l], ws[y]>>] \o Keys(l + 1)
  IN Keys(1)

\* Line 314 (and 345): the keys of groupby(['source']).
keys_list_sources(dff) == SortedSeq({dff[j].source : j \in DOMAIN dff})

\* groups_dict[key]: the scores of the rows of one (source, weight) group.
group_scores(dff, key) ==
  LET rows == SortedSeq({j \in DOMAIN dff : dff[j].source = key[1] /\ dff[j].weight = key[2]})
  IN [y \in DOMAIN rows |-> dff[rows[y]].score]

\* Lines 323-324 and 332-333: what one key adds to the two running lists.
score_term(dff, key) == FMul(FSum(group_scores(dff, key)), key[2])

\* Lines 324 and 333 without the weight: the plain number of rows.
length_term_unweighted(dff, key) == Len(group_scores(dff, key))

length_term(dff, key) == Len(group_scores(dff, key)) * key[2]

\* Lines 328 and 337: np.sum(score_list_w) / np.sum(length_w).
weighted_quotient(score_list_w, length_w) == FDiv(FSum(score_list_w), ISum(length_w))

\* Lines 317-337: the loop over the (source, weight) keys.
mean_scores_w(dff) ==
  LET keys == keys_list(dff)
      RECURSIVE Loop(_, _, _, _, _)
      Loop(y, last_key, score_list_w, length_w, means) ==
        IF y > Len(keys) THEN means
        ELSE
          LET key == keys[y]
              same == key[1] = last_key
              means1 == IF same THEN means
                        ELSE Append(means, weighted_quotient(score_list_w, length_w))
              sl1 == IF same THEN Append(score_list_w, score_term(dff, key))
                     ELSE <<score_term(dff, key)>>
              ll1 == IF same THEN Append(length_w, length_term(dff, key))
                     ELSE <<length_term(dff, key)>>
              means2 == IF key = keys[Len(keys)]
                        THEN Append(means1, weighted_quotient(sl1, ll1))
                        ELSE means1
          IN Loop(y + 1, key[1], sl1, ll1, means2)
  IN Loop(1, keys[1][1], <<>>, <<>>, <<>>)

\* Lines 344-349: np.mean of the scores of the rows of each source.
mean_scores(dff) ==
  LET ks == keys_list_sources(dff)
  IN [y \in DOMAIN ks |->
        LET rows == SortedSeq({j \in DOMAIN dff : dff[j].source = ks[y]})
        IN FDiv(FSum([z \in DOMAIN rows |-> dff[rows[z]].score]), Len(rows))]

\* str(key) of lines 340 and 351.
str(key) == ToString(key)

\* sort_values(by=['score'], ascending=False): descending scores, NaN last;
\* equal scores come out in the order tq leaves their sources in.
sort_by_score(rows, ks, tq) ==
  LET Before(a, b) ==
        \/ ~IsNaN(rows[a].score) /\ IsNaN(rows[b].score)
        \/ /\ ~IsNaN(rows[a].score) /\ ~IsNaN(rows[b].score)
           /\ FLess(rows[b].score, rows[a].score)
        \/ /\ \/ IsNaN(rows[a].score) /\ IsNaN(rows[b].score)
              \/ rows[a].score = rows[b].score
           /\ PosIn(tq, ks[a]) < PosIn(tq, ks[b])
      q == CHOOSE f \in Perms(DOMAIN rows) :
             \A i, j \in DOMAIN f : i < j => Before(f[i], f[j])
  IN [i \in DOMAIN rows |-> rows[q[i]]]

\* Lines 340-341 and 351-352: the source score table.  pd.DataFrame raises
\* ValueError when the two columns differ in length.
df_scores_source(dff, weighted_mean, tq) ==
  LET ks == keys_list_sources(dff)
      sc == IF weighted_mean THEN mean_scores_w(dff) ELSE mean_scores(dff)
  IN IF Len(ks) # Len(sc)
     THEN [status |-> "ValueError", rows |-> <<>>]
     ELSE [status |-> "ok",
           rows |-> sort_by_score([y \in DOMAIN ks |-> [source |-> str(ks[y]), score |-> sc[y]]],
                                  ks, tq)]

\* Lines 293-357: what apply_method can return: the error of make_adjacency
\* or of calculate_scores, or the two score tables.
apply_method(sdf, p, weighted_mean, tq) ==
  LET adj == make_adjacency(sdf, p, tq)
      Raise(e) == [status |-> e, df_scores_target |-> <<>>, df_scores_source |-> <<>>,
                   df_filtered |-> <<>>]
  IN IF adj.status # "ok" THEN {Raise(adj.status)}
     ELSE {IF cs.status # "ok" THEN Raise(cs.status)
           ELSE LET dst == df_scores_target(adj.matrix, cs.scores[1])
                    dss == df_scores_source(df_final(adj.dfw, dst), weighted_mean, tq)
                IN IF dss.status # "ok" THEN Raise(dss.status)
                   ELSE [status |-> "ok", df_scores_target |-> dst,
                         df_scores_source |-> dss.rows, df_filtered |-> adj.dfw] :
           cs \in calculate_scores(to_numpy(adj.matrix), 1)}

\* ------------------------------------------------------------------ actions
\* No call is in progress and the last result has been taken by the caller.
NoCall == [op |-> "none"]

\* The caller calls make_adjacency(m, n, k, 'user', 'outlet', weight,
\* 'count', drop=drop) with parameters of PS; the call returns or raises.
MakeAdjacencyWith(PS) ==
  /\ call = NoCall
  /\ \E p \in PS :
       /\ call' = [op |-> "make_adjacency", p |-> p,
                   ret |-> make_adjacency(self_df, p, tie)]
       /\ self_df' = self_df_after(self_df, p.weight)
  /\ UNCHANGED <<caller_df, tie>>

\* The caller calls calculate_scores(A, dimension) on a matrix of MS.
CalculateScoresWith(MS) ==
  /\ call = NoCall
  /\ \E A \in MS, dimension \in Dimensions :
       \E ret \in calculate_scores(A, dimension) :
         call' = [op |-> "calculate_scores", A |-> A, dimension |-> dimension,
                  ret |-> ret]
  /\ UNCHANGED <<self_df, caller_df, tie>>

\* The caller calls apply_method(m, n, k, 'user', 'outlet', weight, 'count',
\* drop=drop, weighted_mean=weighted_mean) with parameters of PS and
\* weighted_mean of WM.
ApplyMethodWith(PS, WM) ==
  /\ call = NoCall
  /\ \E p \in PS, weighted_mean \in WM :
       \E ret \in apply_method(self_df, p, weighted_mean, tie) :
         /\ call' = [op |-> "apply_method", p |-> p, weighted_mean |-> weighted_mean,
                     ret |-> ret]
         /\ self_df' = self_df_after(self_df, p.weight)
  /\ UNCHANGED <<caller_df, tie>>

\* The caller takes the result; the object is ready for the next call.
Return ==
  /\ call # NoCall
  /\ call' = NoCall
  /\ UNCHANGED <<self_df, caller_df, tie>>

\* --- make_adjacency on raw logs, the n threshold and the m cap, under
\* every order the sort may leave ties in.
Params == [m : MChoices, n : NChoices, k : {None, 2}, drop : {{}},
           weight : {FALSE}]

Init ==
  /\ self_df \in RawTables
  /\ caller_df = self_df
  /\ tie \in Perms(Sources)
  /\ call = NoCall

MakeAdjacency == MakeAdjacencyWith(Params)

Next == MakeAdjacency \/ Return

Spec == Init /\ [][Next]_vars

\* --- make_adjacency on raw logs, drop and the k threshold, both weight
\* modes, ties left in key order.
DropParams == [m : {None, 1}, n : {1, 2}, k : KChoices, drop : DropChoices,
               weight : BOOLEAN]

InitDrop ==
  /\ self_df \in RawTables
  /\ caller_df = self_df
  /\ tie = SortedSeq(Sources)
  /\ call = NoCall

NextDrop == MakeAdjacencyWith(DropParams) \/ Return

SpecDrop == InitDrop /\ [][NextDrop]_vars

\* --- calculate_scores alone, on every matrix of Matrices.  The object's
\* table plays no part in it: one table is enough.
\* The matrices of r rows out of Rows whose entries sum to total at most.
RECURSIVE MatricesOfShape(_, _, _)
MatricesOfShape(r, Rows, total) ==
  IF r = 0 THEN {<<>>}
  ELSE {Append(y[1], y[2]) :
          y \in {z \in MatricesOfShape(r - 1, Rows, total) \X Rows :
                   np_sum(z[1]) + ISum(z[2]) <= total}}

\* The matrices of at most MaxMatRows x MaxMatCols entries 0..MaxEntry whose
\* entries sum to total at most.
Matrices(total) ==
  UNION {MatricesOfShape(r, {row \in [1..c -> 0..MaxEntry] : ISum(row) <= total}, total) :
           r \in 1..MaxMatRows, c \in 1..MaxMatCols}

InitScores ==
  /\ self_df = <<[user |-> 1, outlet |-> 11, count |-> 1]>>
  /\ caller_df = self_df
  /\ tie = SortedSeq(Sources)
  /\ call = NoCall

NextScores == CalculateScoresWith(Matrices(MaxTotal)) \/ Return

SpecScores == InitScores /\ [][NextScores]_vars

\* --- the three methods on aggregated tables and on raw logs, without the
\* m cap; calculate_scores is called on the matrices make_adjacency returns
\* for the table.
PipelineParams ==
  [m : {None}, n : {1, 2}, k : {None, 2}, drop : {{}}, weight : BOOLEAN]

AdjacencyMatrices ==
  {to_numpy(make_adjacency(self_df, p, tie).matrix) :
     p \in {q \in PipelineParams : make_adjacency(self_df, q, tie).status = "ok"}}

InitPipeline ==
  /\ self_df \in AggregatedTables(MaxAggRows) \cup RawTables
  /\ caller_df = self_df
  /\ tie = SortedSeq(Sources)
  /\ call = NoCall

NextPipeline ==
  \/ MakeAdjacencyWith(PipelineParams)
  \/ CalculateScoresWith(AdjacencyMatrices)
  \/ ApplyMethodWith(PipelineParams, BOOLEAN)
  \/ Return

SpecPipeline == InitPipeline /\ [][NextPipeline]_vars

\* --- apply_method with weighted_mean alone, on longer aggregated tables and
\* on raw logs.
WeightedParams == [m : {None}, n : {1, 2}, k : {None}, drop : {{}}, weight : BOOLEAN]

InitWeighted ==
  /\ self_df \in AggregatedTables(MaxRows) \cup RawTables
  /\ caller_df = self_df
  /\ tie = SortedSeq(Sources)
  /\ call = NoCall

NextWeighted == ApplyMethodWith(WeightedParams, {TRUE}) \/ Return

SpecWeighted == InitWeighted /\ [][NextWeighted]_vars

\* =================================================================== claims
\* The thresholds restated on the caller's table, by the rules the
\* documentation gives, for a call with parameters p.
IsMakeAdjacency == call.op = "make_adjacency"

Surviving(p) ==
  {i \in DOMAIN caller_df :
     caller_df[i].user \notin p.drop /\ caller_df[i].outlet \notin p.drop}

RowsOfTarget(p, t) == Cardinality({i \in Surviving(p) : caller_df[i].user = t})

UnderK(p) ==
  {t \in Targets : /\ RowsOfTarget(p, t) > 0
                   /\ p.k # None => RowsOfTarget(p, t) < p.k}

DistinctSourcesOf(p, t) ==
  Cardinality({caller_df[i].outlet : i \in {j \in Surviving(p) : caller_df[j].user = t}})

PassN(p) == {t \in UnderK(p) : DistinctSourcesOf(p, t) >= p.n}

NFiltered(p) == {i \in Surviving(p) : caller_df[i].user \in PassN(p)}

NFilteredSources(p) == {caller_df[i].outlet : i \in NFiltered(p)}

RecordCountOf(p, s) == Cardinality({i \in NFiltered(p) : caller_df[i].outlet = s})

DistinctTargetsOf(p, s) ==
  Cardinality({caller_df[i].user : i \in {j \in NFiltered(p) : caller_df[j].outlet = s}})

FirstSeenOf(p, s) == Min({i \in NFiltered(p) : caller_df[i].outlet = s})

Cap(p) == IF p.m = None THEN Len(caller_df) ELSE p.m

\* What a call kept: the targets or sources of one of its frames, the row
\* and column labels of its matrix.
TargetsIn(ret, frame) == {ret.df[i].target : i \in Range(frame)}
SourcesIn(ret, frame) == {ret.df[i].source : i \in Range(frame)}
RowsOf(ret) == Range(ret.matrix.index)
ColumnsOf(ret) == Range(ret.matrix.columns)

\* C1: every row and every column of a returned adjacency matrix has a
\* strictly positive sum, also when the weights come from a weight column.
C1_PositiveSums ==
  (IsMakeAdjacency /\ call.ret.status = "ok") =>
    LET M == call.ret.matrix
    IN /\ \A t \in RowsOf(call.ret) :
            SumOver({<<t, s>> : s \in ColumnsOf(call.ret)}, M.cell) > 0
       /\ \A s \in ColumnsOf(call.ret) :
            SumOver({<<t, s>> : t \in RowsOf(call.ret)}, M.cell) > 0

\* C2 as stated: the m threshold keeps the top-m sources by number of
\* distinct targets over the n-filtered records, ties in first-seen order,
\* and drops the records of every other source.
C2_TopByDistinctTargets ==
  IsMakeAdjacency =>
    LET p == call.p
        S == NFilteredSources(p)
        Ahead(a, b) ==
          \/ DistinctTargetsOf(p, a) > DistinctTargetsOf(p, b)
          \/ /\ DistinctTargetsOf(p, a) = DistinctTargetsOf(p, b)
             /\ FirstSeenOf(p, a) < FirstSeenOf(p, b)
        Top == {s \in S : Cardinality({a \in S : Ahead(a, s)}) < Cap(p)}
    IN /\ SourcesIn(call.ret, call.ret.th2) = Top
       /\ Len(call.ret.th2) =
            Cardinality({i \in NFiltered(p) : caller_df[i].outlet \in Top})

\* C2 as amended: the m threshold keeps min(m, number of sources) sources
\* of the n-filtered records, none of them with fewer records (rows, not
\* distinct targets) than a source it drops, keeps exactly the n-filtered
\* records of those sources, and they are the columns of the matrix.
C2_TopByRecordCount ==
  IsMakeAdjacency =>
    LET p == call.p
        S == NFilteredSources(p)
        K == SourcesIn(call.ret, call.ret.th2)
    IN /\ K \subseteq S
       /\ Cardinality(K) = Min({Cap(p), Cardinality(S)})
       /\ \A a \in K, b \in S \ K : RecordCountOf(p, a) >= RecordCountOf(p, b)
       /\ Len(call.ret.th2) =
            Cardinality({i \in NFiltered(p) : caller_df[i].outlet \in K})
       /\ call.ret.status = "ok" => ColumnsOf(call.ret) = K

\* An unweighted table with a duplicated pair where the cap bites: the kept
\* source has as many distinct targets as a dropped one that was seen
\* first, and more records.
C2_Witness ==
  /\ IsMakeAdjacency
  /\ ~call.p.weight
  /\ call.ret.status = "ok"
  /\ \E a \in SourcesIn(call.ret, call.ret.th2) :
       \E b \in NFilteredSources(call.p) \ SourcesIn(call.ret, call.ret.th2) :
         /\ DistinctTargetsOf(call.p, a) = DistinctTargetsOf(call.p, b)
         /\ RecordCountOf(call.p, a) > RecordCountOf(call.p, b)
         /\ FirstSeenOf(call.p, b) < FirstSeenOf(call.p, a)

\* C3 as stated: with m, k and drop fixed (a finite m included), a call
\* with a larger n never has a row that the call with a smaller n lacks
\* (n1 = n2 is one and the same call).
C3_RowsShrinkAsNGrows ==
  IsMakeAdjacency =>
    \A n1 \in NChoices :
      n1 < call.p.n =>
        RowsOf(call.ret)
          \subseteq RowsOf(make_adjacency(self_df, [call.p EXCEPT !.n = n1], tie))

\* C3 as amended: the same, for calls that leave m unset.
C3_RowsShrinkAsNGrowsNoCap ==
  (IsMakeAdjacency /\ call.p.m = None) =>
    \A n1 \in NChoices :
      n1 < call.p.n =>
        RowsOf(call.ret)
          \subseteq RowsOf(make_adjacency(self_df, [call.p EXCEPT !.n = n1], tie))

\* A call without cap and n = 2 that returns rows, fewer than n = 1 does.
C3_Witness ==
  /\ IsMakeAdjacency
  /\ call.p.m = None
  /\ call.p.n = 2
  /\ RowsOf(call.ret) # {}
  /\ RowsOf(call.ret) # RowsOf(make_adjacency(self_df, [call.p EXCEPT !.n = 1], tie))

\* m1 is below m2, an unset m being the largest (m1 = m2 is one and the
\* same call).
CapBelow(m1, m2) == m1 # None /\ (m2 = None \/ m1 < m2)

\* C4 as stated: with n, k and drop fixed, a call with a larger m never has
\* a column that the call with a smaller m lacks.
C4_ColumnsShrinkAsMGrows ==
  IsMakeAdjacency =>
    \A m1 \in MChoices :
      CapBelow(m1, call.p.m) =>
        ColumnsOf(call.ret)
          \subseteq ColumnsOf(make_adjacency(self_df, [call.p EXCEPT !.m = m1], tie))

\* C4 as amended: raising m never removes a column: the call with the
\* smaller m has no column that the call with the larger m lacks.
C4_ColumnsGrowWithM ==
  IsMakeAdjacency =>
    \A m1 \in MChoices :
      CapBelow(m1, call.p.m) =>
        ColumnsOf(make_adjacency(self_df, [call.p EXCEPT !.m = m1], tie))
          \subseteq ColumnsOf(call.ret)

\* A call with m = 2 that returns two columns where m = 1 returns one.
C4_Witness ==
  /\ IsMakeAdjacency
  /\ call.p.m = 2
  /\ Cardinality(ColumnsOf(call.ret)) = 2
  /\ Cardinality(ColumnsOf(make_adjacency(self_df, [call.p EXCEPT !.m = 1], tie))) = 1

C7_EmptyResultError ==
  (IsMakeAdjacency /\ call.ret.th2 = <<>>) => call.ret.status = "EmptyResultError"

\* C7 as amended: when the filtering leaves no record, in either weight
\* mode, the call raises ValueError (pd.concat of nothing) and returns no
\* matrix; otherwise it returns a matrix with at least one row and column.
C7_EmptyRaisesValueError ==
  IsMakeAdjacency =>
    /\ NFiltered(call.p) = {} => call.ret.th2 = <<>>
    /\ call.ret.th2 = <<>> =>
         call.ret.status = "ValueError" /\ call.ret.matrix = NoMatrix
    /\ call.ret.th2 # <<>> =>
         /\ call.ret.status = "ok"
         /\ RowsOf(call.ret) # {}
         /\ ColumnsOf(call.ret) # {}

\* A call with a weight column whose n threshold removes every target.
C7_Witness ==
  /\ IsMakeAdjacency
  /\ call.p.weight
  /\ call.p.k = None
  /\ call.p.drop = {}
  /\ call.ret.th0 # <<>>
  /\ call.ret.th1 = <<>>
  /\ call.ret.status = "ValueError"

\* C6: a target passes the n threshold exactly when it has at least n
\* distinct sources among the k-filtered records; a target with fewer is
\* no row of the matrix make_adjacency returns and has no row in the
\* target score table apply_method returns.
C6_NThreshold ==
  /\ IsMakeAdjacency =>
       /\ TargetsIn(call.ret, call.ret.th1) = PassN(call.p)
       /\ RowsOf(call.ret) \subseteq PassN(call.p)
  /\ (call.op = "apply_method" /\ call.ret.status = "ok") =>
       {r.target : r \in Range(call.ret.df_scores_target)} \subseteq PassN(call.p)

\* apply_method with n = 2 returns scores, and a target of the table that
\* has one distinct source is not in the target score table.
C6_Witness ==
  /\ call.op = "apply_method"
  /\ call.p.n = 2
  /\ call.ret.status = "ok"
  /\ \E t \in UnderK(call.p) :
       /\ DistinctSourcesOf(call.p, t) = 1
       /\ t \notin {r.target : r \in Range(call.ret.df_scores_target)}

\* The scores a call may return for matrix A, dimension by dimension: one
\* per row, each in [-1, 1], the smallest -1 and the largest +1.
SpanUnitInterval(v, A) ==
  /\ Len(v) = Len(A)
  /\ \A i \in DOMAIN v : ~IsNaN(v[i]) /\ -v[i][2] <= v[i][1] /\ v[i][1] <= v[i][2]
  /\ \E i \in DOMAIN v : v[i] = <<-1, 1>>
  /\ \E i \in DOMAIN v : v[i] = <<1, 1>>

ScoresAsClaimed(c) ==
  /\ c.ret.status = "ok"
  /\ Len(c.ret.scores) = c.dimension
  /\ \A d \in DOMAIN c.ret.scores : SpanUnitInterval(c.ret.scores[d], c.A)

TwoDistinctRows(A) == \E i, j \in DOMAIN A : A[i] # A[j]

AllSumsPositive(A) ==
  /\ \A i \in DOMAIN A : ISum(A[i]) > 0
  /\ \A j \in DOMAIN A[1] : ISum([i \in DOMAIN A |-> A[i][j]]) > 0

Det2(A, i1, i2, j1, j2) == A[i1][j1] * A[i2][j2] - A[i1][j2] * A[i2][j1]

Det3(A, i, j) ==
    A[i[1]][j[1]] * Det2(A, i[2], i[3], j[2], j[3])
  - A[i[1]][j[2]] * Det2(A, i[2], i[3], j[1], j[3])
  + A[i[1]][j[3]] * Det2(A, i[2], i[3], j[1], j[2])

\* The triples of indices out of D, in ascending order.
Triples(D) == {t \in D \X D \X D : t[1] < t[2] /\ t[2] < t[3]}

\* The rank of A is at least 2, 3: some minor of that size is not zero.
MatrixRankAtLeast(A, rk) ==
  \/ /\ rk = 2
     /\ \E i1, i2 \in DOMAIN A :
          /\ i1 < i2
          /\ \E j1, j2 \in DOMAIN A[1] : j1 < j2 /\ Det2(A, i1, i2, j1, j2) # 0
  \/ /\ rk = 3
     /\ \E i \in Triples(DOMAIN A), j \in Triples(DOMAIN A[1]) : Det3(A, i, j) # 0

\* C8 as stated: for a matrix with at least two distinct rows
\* calculate_scores returns, per dimension, one score per row, all in
\* [-1, 1], with minimum -1 and maximum +1.
C8_ScoresOfDistinctRows ==
  (call.op = "calculate_scores" /\ TwoDistinctRows(call.A)) => ScoresAsClaimed(call)

\* C8 as amended: the same for a matrix whose row sums and column sums are
\* all positive and whose rank exceeds the dimension asked for (for
\* dimension 1: whose rows are not all proportional to one another).
C8_ScoresOfFullProfile ==
  (/\ call.op = "calculate_scores"
   /\ AllSumsPositive(call.A)
   /\ MatrixRankAtLeast(call.A, call.dimension + 1)) => ScoresAsClaimed(call)

\* Two dimensions of a rank-3 matrix with positive sums, with a score
\* strictly between -1 and +1.
C8_Witness ==
  /\ call.op = "calculate_scores"
  /\ call.dimension = 2
  /\ AllSumsPositive(call.A)
  /\ MatrixRankAtLeast(call.A, 3)
  /\ call.ret.status = "ok"
  /\ \E i \in DOMAIN call.ret.scores[1] :
       call.ret.scores[1][i] \notin {<<-1, 1>>, <<1, 1>>}

\* C9: with weighted_mean the source score table has exactly one row per
\* source of the filtered table, labelled str(source), whose score is
\* sum(score * weight) / sum(weight) over the filtered rows of the source;
\* and apply_method returns whenever the matrix exists and is scored.
C9_WeightedMean ==
  (call.op = "apply_method" /\ call.weighted_mean) =>
    LET ret == call.ret
        F == ret.df_filtered
        dss == ret.df_scores_source
        adj == make_adjacency(self_df, call.p, tie)
        ScoreOf(t) == (CHOOSE r \in Range(ret.df_scores_target) : r.target = t).score
        Rows(s) == SortedSeq({j \in DOMAIN F : F[j].source = s})
        Expected(s) ==
          FDiv(FSum([y \in DOMAIN Rows(s) |->
                       FMul(ScoreOf(F[Rows(s)[y]].target), F[Rows(s)[y]].weight)]),
               ISum([y \in DOMAIN Rows(s) |-> F[Rows(s)[y]].weight]))
    IN /\ ret.status = "ok" <=>
            (adj.status = "ok" /\ AllSumsPositive(to_numpy(adj.matrix)))
       /\ ret.status = "ok" =>
            /\ Len(dss) = Cardinality({F[j].source : j \in DOMAIN F})
            /\ \A s \in {F[j].source : j \in DOMAIN F} :
                 /\ Cardinality({i \in DOMAIN dss : dss[i].source = ToString(s)}) = 1
                 /\ \A i \in DOMAIN dss :
                      dss[i].source = ToString(s) => dss[i].score = Expected(s)

\* A source with two filtered rows of different weights whose targets have
\* different scores, in a matrix of rank 2.
C9_Witness ==
  /\ call.op = "apply_method"
  /\ call.weighted_mean
  /\ call.ret.status = "ok"
  /\ MatrixRankAtLeast(to_numpy(make_adjacency(self_df, call.p, tie).matrix), 2)
  /\ \E i, j \in DOMAIN call.ret.df_filtered :
       /\ call.ret.df_filtered[i].source = call.ret.df_filtered[j].source
       /\ call.ret.df_filtered[i].weight # call.ret.df_filtered[j].weight
       /\ call.ret.df_filtered[i].weight > 0
       /\ call.ret.df_filtered[j].weight > 0
  /\ \E r \in Range(call.ret.df_scores_target) : r.score = <<1, 1>>
  /\ \E r \in Range(call.ret.df_scores_target) : r.score = <<-1, 1>>

\* C10: whatever calls were made, self.df is the table the caller handed
\* over, and make_adjacency repeated with the parameters of the call that
\* just returned returns the same.
C10_TableUnchanged ==
  /\ self_df = caller_df
  /\ IsMakeAdjacency => make_adjacency(self_df, call.p, tie) = call.ret

\* A call that added the columns target, source and weight to its working
\* copy and filtered rows out of it has returned scores.
C10_Witness ==
  /\ call.op = "apply_method"
  /\ call.p.weight
  /\ call.ret.status = "ok"
  /\ Len(call.ret.df_filtered) < Len(caller_df)
  /\ self_df = caller_df

====
